---- MODULE Spec2Model ----
(***************************************************************************)
(* news-agent: a retrieval-augmented pipeline.  The model covers the HTTP  *)
(* endpoint (src/api/server.ts), the queue listeners (src/kafka/consumer.ts *)
(* and its query variant) and the article services (processArticle,        *)
(* storeArticle, searchArticles, generateResponse).                        *)
(*                                                                         *)
(* Texts are sequences of one-character strings.  An async function is the *)
(* set of its possible runs; a run records the external calls it made, in  *)
(* order, and how it settled (resolved with a value or rejected with an    *)
(* error).                                                                 *)
(***************************************************************************)
EXTENDS Integers, Sequences, FiniteSets, TLC

VARIABLES
    index,      \* the vector index: id -> metadata of the record stored under it
    ingested,   \* the URLs whose ingestion ended with a successful upsert
    offset,     \* per consumer: the messages whose handler resolved
    delivered,  \* per consumer: the handler invocations so far
    redeliver,  \* per consumer: the message the runtime holds for redelivery
    last        \* the last completed operation: its input, calls and outcome

vars == <<index, ingested, offset, delivered, redeliver, last>>

----------------------------------------------------------------------------
(* Bounds of the model.                                                    *)

\* messages the consumer runtime delivers in one behaviour
MaxMessages == 2
\* length of the URL tails drawn for the id function
MaxTail == 3
\* number of text fragments an answer is assembled from
MaxFragments == 3
\* number of candidate articles handed to generateResponse
MaxCandidates == 2
\* length of the model replies drawn for the JSON extraction
MaxReplyLen == 2

----------------------------------------------------------------------------
(* Program constants.                                                      *)

IdLen == 64
TopK == 3
TitleLimit == 1000
ContentLimit == 5000
EmbedContentLimit == 1000

----------------------------------------------------------------------------
(* Strings.                                                                *)

\* s.substring(a, b) / s.slice(a, b) for 0 <= a, with b clipped to the length
Substring(s, a, b) ==
    LET e == IF b > Len(s) THEN Len(s) ELSE b
    IN  IF a >= e THEN << >> ELSE SubSeq(s, a + 1, e)

\* text.slice(start, end): a negative start counts from the end of the text
Slice(s, start, end) ==
    LET a == IF start < 0
             THEN (IF Len(s) + start < 0 THEN 0 ELSE Len(s) + start)
             ELSE start
    IN  Substring(s, a, end)

\* s.indexOf(c): 0-based position of the first c, or -1
IndexOf(s, c) ==
    IF \E i \in 1..Len(s) : s[i] = c
    THEN (CHOOSE i \in 1..Len(s) : s[i] = c /\ \A j \in 1..(i - 1) : s[j] # c) - 1
    ELSE -1

\* s.lastIndexOf(c): 0-based position of the last c, or -1
LastIndexOf(s, c) ==
    IF \E i \in 1..Len(s) : s[i] = c
    THEN (CHOOSE i \in 1..Len(s) : s[i] = c /\ \A j \in (i + 1)..Len(s) : s[j] # c) - 1
    ELSE -1

\* s.startsWith(p)
StartsWith(s, p) == Len(s) >= Len(p) /\ SubSeq(s, 1, Len(p)) = p

\* does p occur in s at 1-based position i
OccursAt(s, p, i) == i + Len(p) - 1 <= Len(s) /\ SubSeq(s, i, i + Len(p) - 1) = p

\* the printable ASCII characters, code 32 first (code 96 is spelled out)
AsciiChars ==
    <<" ", "!", "\"", "#", "$", "%", "&", "'", "(", ")", "*", "+", ",", "-",
    ".", "/", "0", "1", "2", "3", "4", "5", "6", "7", "8", "9", ":", ";",
    "<", "=", ">", "?", "@", "A", "B", "C", "D", "E", "F", "G", "H", "I",
    "J", "K", "L", "M", "N", "O", "P", "Q", "R", "S", "T", "U", "V", "W",
    "X", "Y", "Z", "[", "\\", "]", "^", "_", "(grave)", "a", "b", "c", "d", "e",
    "f", "g", "h", "i", "j", "k", "l", "m", "n", "o", "p", "q", "r", "s",
    "t", "u", "v", "w", "x", "y", "z", "{", "|", "}", "~">>

\* the UTF-8 byte of an ASCII character (Buffer.from(text))
Ord(c) == 31 + CHOOSE i \in 1..Len(AsciiChars) : AsciiChars[i] = c

Base64Alphabet ==
    <<"A", "B", "C", "D", "E", "F", "G", "H", "I", "J", "K", "L", "M", "N",
    "O", "P", "Q", "R", "S", "T", "U", "V", "W", "X", "Y", "Z", "a", "b",
    "c", "d", "e", "f", "g", "h", "i", "j", "k", "l", "m", "n", "o", "p",
    "q", "r", "s", "t", "u", "v", "w", "x", "y", "z", "0", "1", "2", "3",
    "4", "5", "6", "7", "8", "9", "+", "/">>

B64Char(n) == Base64Alphabet[n + 1]

\* Buffer.from(text).toString('base64')
RECURSIVE Base64(_)
Base64(s) ==
    IF Len(s) = 0 THEN << >>
    ELSE IF Len(s) = 1 THEN
        LET b1 == Ord(s[1])
        IN  <<B64Char(b1 \div 4), B64Char((b1 % 4) * 16), "=", "=">>
    ELSE IF Len(s) = 2 THEN
        LET b1 == Ord(s[1])
            b2 == Ord(s[2])
        IN  <<B64Char(b1 \div 4), B64Char((b1 % 4) * 16 + b2 \div 16),
              B64Char((b2 % 16) * 4), "=">>
    ELSE
        LET b1 == Ord(s[1])
            b2 == Ord(s[2])
            b3 == Ord(s[3])
        IN  <<B64Char(b1 \div 4), B64Char((b1 % 4) * 16 + b2 \div 16),
              B64Char((b2 % 16) * 4 + b3 \div 64), B64Char(b3 % 64)>>
            \o Base64(SubSeq(s, 4, Len(s)))

\* a faulty variant of ArticleId: the cut is taken shorter than the code's
ArticleIdShortCut(url) == Substring(Base64(url), 0, IdLen - 4)

\* Buffer.from(url).toString('base64').slice(0, 64)
ArticleId(url) == Substring(Base64(url), 0, IdLen)

----------------------------------------------------------------------------
(* The URLs and messages of the model.                                     *)

UrlA == <<"h", "t", "t", "p", ":", "/", "/", "a", ".", "i", "o", "/", "1">>
UrlB == <<"h", "t", "t", "p", ":", "/", "/", "a", ".", "i", "o", "/", "2">>
\* a 46-character stem: URLs built on it straddle the 48 bytes an id keeps
LongStem ==
    <<"h", "t", "t", "p", "s", ":", "/", "/", "n", "e", "w", "s", ".", "e",
    "x", "a", "m", "p", "l", "e", ".", "c", "o", "m", "/", "2", "0", "2",
    "4", "/", "w", "o", "r", "l", "d", "/", "e", "u", "r", "o", "p", "e",
    "/", "s", "t", "-">>
UrlL1 == LongStem \o <<"0", "0", "1">>

FtpUrl == <<"f", "t", "p", ":", "/", "/", "a", ".", "i", "o", "/", "1">>

----------------------------------------------------------------------------
(* JavaScript values: objects, errors, truthiness.                         *)

\* an object is a function from its defined property names to their values;
\* a property whose value is undefined is left out
HasProp(obj, k) == k \in DOMAIN obj

\* { k1: obj.k1, ... } for the property names in keys
Pick(obj, keys) == [k \in (DOMAIN obj \cap keys) |-> obj[k]]

EmptyObject == [k \in {} |-> << >>]

ArticleKeys == {"title", "content", "url", "date"}
SourceKeys == {"title", "url", "date"}

\* an Error instance with its message
Err(msg) == [isError |-> TRUE, message |-> msg]

FetchFailed == Err("fetch failed")
InvalidHtml == Err("Failed to fetch valid HTML content.")
NoHtml == Err("Failed to fetch HTML content")
ModelFailed == Err("generateContent failed")
SyntaxError == Err("Unexpected token in JSON")
TypeError == Err("Cannot read properties of undefined")
EmbedFailed == Err("embedContent failed")
UpsertFailed == Err("upsert failed")
QueryFailed == Err("query failed")

\* the values a request body's query can take: missing, or a number, or a text
Missing == [type |-> "undefined"]
Num(n) == [type |-> "number", n |-> n]
Str(s) == [type |-> "string", s |-> s]

\* !value is false
Truthy(v) ==
    CASE v.type = "undefined" -> FALSE
      [] v.type = "number" -> v.n # 0
      [] v.type = "string" -> Len(v.s) > 0

----------------------------------------------------------------------------
(* Async functions as sets of runs.  A run is                              *)
(*   [calls, ok |-> TRUE, v]   resolved with the value v, or               *)
(*   [calls, ok |-> FALSE, e]  rejected with the error e,                  *)
(* where calls lists the external calls and log lines of the run in order. *)

Resolve(v) == {[calls |-> << >>, ok |-> TRUE, v |-> v]}

\* throw e
Throw(e) == {[calls |-> << >>, ok |-> FALSE, e |-> e]}

\* const v = await S; K(v)  -- a rejection of S ends the run
Then(S, K(_)) ==
    UNION {IF r.ok THEN {[k EXCEPT !.calls = r.calls \o @] : k \in K(r.v)}
                   ELSE {r} : r \in S}

\* try { S } catch (e) { H(e) }
Catch(S, H(_)) ==
    UNION {IF r.ok THEN {r}
                   ELSE {[k EXCEPT !.calls = r.calls \o @] : k \in H(r.e)} : r \in S}

\* console.error / console.warn of an error (or of a record with a message)
Log(what) == {[calls |-> <<[console |-> what.message]>>, ok |-> TRUE, v |-> "logged"]}

----------------------------------------------------------------------------
(* The external services.  Each call either rejects or resolves with one   *)
(* of the values the service can return.                                   *)

\* the page bodies a fetch can resolve with: an empty body, or a page
Page == <<"<", "h", "1", ">">>
HtmlBodies == {<< >>, Page}

\* fetch(url).then(res => res.text())
Fetch(url) ==
    {[calls |-> <<[fetch |-> url, html |-> h]>>, ok |-> TRUE, v |-> h] : h \in HtmlBodies}
    \cup {[calls |-> <<[fetch |-> url, error |-> FetchFailed]>>, ok |-> FALSE, e |-> FetchFailed]}

\* model.generateContent(prompt), then response.text(): the model may reply
\* with any text of texts
GenerateContent(prompt, texts) ==
    {[calls |-> <<[generate |-> prompt, text |-> t]>>, ok |-> TRUE, v |-> t] : t \in texts}
    \cup {[calls |-> <<[generate |-> prompt, error |-> ModelFailed]>>, ok |-> FALSE, e |-> ModelFailed]}

\* embeddingModel.embedContent(...)
EmbedContent ==
    {[calls |-> <<[embed |-> "values"]>>, ok |-> TRUE, v |-> "values"],
     [calls |-> <<[embed |-> "rejected", error |-> EmbedFailed]>>, ok |-> FALSE, e |-> EmbedFailed]}

\* index.upsert([{id, values, metadata}])
Upsert(id, metadata) ==
    {[calls |-> <<[upsert |-> id, metadata |-> metadata]>>, ok |-> TRUE, v |-> "upserted"],
     [calls |-> <<[upsert |-> id, error |-> UpsertFailed]>>, ok |-> FALSE, e |-> UpsertFailed]}

Min(a, b) == IF a < b THEN a ELSE b

\* the lists of n distinct elements of S
RECURSIVE Arrangements(_, _)
Arrangements(S, n) ==
    IF n = 0 THEN {<< >>}
    ELSE UNION {{<<x>> \o t : t \in Arrangements(S \ {x}, n - 1)} : x \in S}

\* index.query({vector, topK, includeMetadata: true}): the topK nearest
\* records (all of them when the index holds fewer), nearest first
Query(idx, topK) ==
    {[calls |-> <<[query |-> topK, matches |-> m]>>, ok |-> TRUE,
      v |-> [i \in 1..Len(m) |-> [id |-> m[i], metadata |-> idx[m[i]]]]]
        : m \in Arrangements(DOMAIN idx, Min(topK, Cardinality(DOMAIN idx)))}
    \cup {[calls |-> <<[query |-> topK, error |-> QueryFailed]>>, ok |-> FALSE, e |-> QueryFailed]}

\* the vector index after the upserts of a run: an upsert that resolved
\* writes its record under its id, replacing the record the id had
RECURSIVE IndexAfter(_, _)
IndexAfter(idx, calls) ==
    IF calls = << >> THEN idx
    ELSE LET c == Head(calls)
             next == IF "upsert" \in DOMAIN c /\ "metadata" \in DOMAIN c
                     THEN [i \in DOMAIN idx \cup {c.upsert} |->
                              IF i = c.upsert THEN c.metadata ELSE idx[i]]
                     ELSE idx
         IN  IndexAfter(next, Tail(calls))

----------------------------------------------------------------------------
(* Model replies and JSON.  In a reply text, "p" is a character of prose   *)
(* and a member token ("A", "B") stands for the member list of a JSON      *)
(* object, which holds no brace.                                           *)

Date1 == <<"2", "0", "2", "4", "-", "0", "5", "-", "0", "1">>
Today == <<"2", "0", "2", "6", "-", "0", "1", "-", "0", "1">>

ArticleA == [title |-> <<"A">>, content |-> <<"a", "a">>, url |-> UrlA, date |-> Date1]
\* an article the model returned without a date
ArticleB == [title |-> <<"B">>, content |-> <<"b">>, url |-> UrlB]

\* a text of n characters
LongText(n) == [i \in 1..n |-> "x"]
\* an article whose title is one character over the limit of the stored
\* metadata
ArticleL == [title |-> LongText(TitleLimit + 1), content |-> <<"l">>,
             url |-> UrlA, date |-> Date1]

MemberTokens == {"A", "B", "L"}
JsonMembers(tok) ==
    CASE tok = "A" -> ArticleA
      [] tok = "B" -> ArticleB
      [] tok = "L" -> ArticleL

\* the texts of at most n characters over the alphabet
RECURSIVE TextsUpTo(_, _)
TextsUpTo(alphabet, n) ==
    IF n = 0 THEN {<< >>}
    ELSE LET shorter == TextsUpTo(alphabet, n - 1)
         IN  shorter \cup {t \o <<c>> : t \in shorter, c \in alphabet}

\* the replies of the model to a normalization prompt: every short text of
\* braces and prose, and a JSON object alone or wrapped in prose
NormalizerReplies ==
    TextsUpTo({"{", "}", "p"}, MaxReplyLen)
    \cup {pre \o <<"{", m, "}">> \o pre : m \in {"A", "B"}, pre \in {<< >>, <<"p">>}}

\* the replies to the normalization prompt of an ingestion: those, and the
\* article with the long title
IngestReplies == NormalizerReplies \cup {<<"{", "L", "}">>}

\* JSON.parse(text) for an object text
JSONParse(text) ==
    IF text = <<"{", "}">> THEN Resolve(EmptyObject)
    ELSE IF Len(text) = 3 /\ text[1] = "{" /\ text[3] = "}" /\ text[2] \in MemberTokens
         THEN Resolve(JsonMembers(text[2]))
         ELSE Throw(SyntaxError)

\* a faulty variant of JsonSpan: an empty span is taken for an empty object
JsonSpanLenient(text) ==
    LET jsonStart == IndexOf(text, "{")
        jsonEnd == LastIndexOf(text, "}") + 1
        span == Slice(text, jsonStart, jsonEnd)
    IN  IF Len(span) < 2 THEN <<"{", "}">> ELSE span

\* text.slice(text.indexOf('{'), text.lastIndexOf('}') + 1)
JsonSpan(text) ==
    LET jsonStart == IndexOf(text, "{")
        jsonEnd == LastIndexOf(text, "}") + 1
    IN  Slice(text, jsonStart, jsonEnd)

----------------------------------------------------------------------------
(* Citations: the extraction of generateResponse.                          *)

\* 1-based position of the first c in s at or after i, or 0
FirstFrom(s, c, i) ==
    IF \E j \in i..Len(s) : s[j] = c
    THEN CHOOSE j \in i..Len(s) : s[j] = c /\ \A k \in i..(j - 1) : s[k] # c
    ELSE 0

\* /\[([^\]]+)\]\(([^)]+)\)/ matched at 1-based position i of s:
\* [ok, url (group 2), next (1-based position after the match)]
CitationAt(s, i) ==
    LET j == FirstFrom(s, "]", i + 1)
        k == FirstFrom(s, ")", j + 2)
    IN  IF /\ i <= Len(s) /\ s[i] = "["
           /\ j > i + 1
           /\ j + 1 <= Len(s) /\ s[j + 1] = "("
           /\ k > j + 2
        THEN [ok |-> TRUE, url |-> SubSeq(s, j + 2, k - 1), next |-> k + 1]
        ELSE [ok |-> FALSE]

\* sourceRegex.exec(answer) with lastIndex = from - 1: the leftmost match
NextCitation(s, from) ==
    IF \E i \in from..Len(s) : CitationAt(s, i).ok
    THEN CitationAt(s, CHOOSE i \in from..Len(s) :
                          CitationAt(s, i).ok /\ \A h \in from..(i - 1) : ~CitationAt(s, h).ok)
    ELSE [ok |-> FALSE]

\* articles.find(a => a.url === url): [found, article]
FindByUrl(articles, url) ==
    LET hit(i) == HasProp(articles[i], "url") /\ articles[i].url = url
    IN  IF \E i \in 1..Len(articles) : hit(i)
        THEN [found |-> TRUE,
              article |-> articles[CHOOSE i \in 1..Len(articles) :
                                      hit(i) /\ \A h \in 1..(i - 1) : ~hit(h)]]
        ELSE [found |-> FALSE]

\* a faulty variant of CiteStep: a url already used is pushed again
CiteStepNoDedupe(articles, url, acc) ==
    LET article == FindByUrl(articles, url)
    IN  IF article.found
        THEN [sources |-> Append(acc.sources, article.article),
              usedUrls |-> acc.usedUrls \cup {url}]
        ELSE acc

\* the body of the while loop for one match
CiteStep(articles, url, acc) ==
    IF url \notin acc.usedUrls
    THEN LET article == FindByUrl(articles, url)
         IN  IF article.found
             THEN [sources |-> Append(acc.sources, article.article),
                   usedUrls |-> acc.usedUrls \cup {url}]
             ELSE acc
    ELSE acc

\* while ((match = sourceRegex.exec(answer)) !== null) { ... }
RECURSIVE CiteLoop(_, _, _, _)
CiteLoop(answer, articles, from, acc) ==
    LET match == NextCitation(answer, from)
    IN  IF match.ok
        THEN CiteLoop(answer, articles, match.next, CiteStep(articles, match.url, acc))
        ELSE acc.sources

\* the sources generateResponse returns for an answer and its candidates
CitedSources(answer, articles) ==
    CiteLoop(answer, articles, 1, [sources |-> << >>, usedUrls |-> {}])

\* "[title](url)"
Cite(title, url) == <<"[">> \o title \o <<"]", "(">> \o url \o <<")">>

----------------------------------------------------------------------------
(* src/api/server.ts                                                       *)

\* \s
IsSpace(c) == c \in {" ", "\t", "\n"}

HttpScheme == <<"h", "t", "t", "p", ":", "/", "/">>
HttpsScheme == <<"h", "t", "t", "p", "s", ":", "/", "/">>

\* /https?:\/\/[^\s]+/ matches at 1-based position i: the length of the
\* scheme matched there, or 0
SchemeAt(query, i) ==
    IF OccursAt(query, HttpScheme, i) /\ i + 7 <= Len(query) /\ ~IsSpace(query[i + 7])
    THEN 7
    ELSE IF OccursAt(query, HttpsScheme, i) /\ i + 8 <= Len(query) /\ ~IsSpace(query[i + 8])
         THEN 8
         ELSE 0

\* extractUrlFromQuery: the leftmost match, run to the next whitespace; null
\* is the empty text
extractUrlFromQuery(query) ==
    IF \E i \in 1..Len(query) : SchemeAt(query, i) > 0
    THEN LET i == CHOOSE i \in 1..Len(query) :
                      SchemeAt(query, i) > 0 /\ \A h \in 1..(i - 1) : SchemeAt(query, h) = 0
             stop == CHOOSE j \in i..Len(query) :
                      /\ \A k \in i..j : ~IsSpace(query[k])
                      /\ (j = Len(query) \/ IsSpace(query[j + 1]))
         IN  SubSeq(query, i, stop)
    ELSE << >>

\* catch (error) { console.error(...); throw error; }
ServerRethrow(url, error) == Then(Log(error), LAMBDA logged : Throw(error))

\* a faulty variant: processArticle stores the article it parsed
ServerProcessArticleStoring(url) ==
    Catch(Then(Fetch(url), LAMBDA html :
            IF html = << >> THEN Throw(InvalidHtml)
            ELSE Then(GenerateContent("extract", NormalizerReplies), LAMBDA text :
                    Then(JSONParse(JsonSpan(text)), LAMBDA article :
                      Then(Upsert(ArticleId(url), article), LAMBDA done :
                        Resolve(article))))),
          LAMBDA error : ServerRethrow(url, error))

\* processArticle(url) of the server: fetch, prompt, parse the JSON span
ServerProcessArticle(url) ==
    Catch(Then(Fetch(url), LAMBDA html :
            IF html = << >> THEN Throw(InvalidHtml)
            ELSE Then(GenerateContent("extract", NormalizerReplies), LAMBDA text :
                    JSONParse(JsonSpan(text)))),
          LAMBDA error : ServerRethrow(url, error))

\* results.matches.map(match => ({title: match.metadata?.title, ...}))
MapMatches(matches) == [i \in 1..Len(matches) |-> Pick(matches[i].metadata, ArticleKeys)]

\* searchArticles(query, topK = 3)
searchArticles(query, idx) ==
    Catch(Then(EmbedContent, LAMBDA embedding :
            Then(Query(idx, TopK), LAMBDA matches : Resolve(MapMatches(matches)))),
          LAMBDA error : Then(Log(error), LAMBDA logged : Throw(error)))

\* relevantArticles.map(a => `Title: ... ${a.content.substring(0, 1000)}`):
\* reading substring of an undefined content throws
BuildContext(articles) ==
    IF \E i \in 1..Len(articles) : ~HasProp(articles[i], "content")
    THEN Throw(TypeError)
    ELSE Resolve([i \in 1..Len(articles) |->
                    Substring(articles[i].content, 0, EmbedContentLimit)])

\* articles.map(a => ({title: a.title, url: a.url, date: a.date}))
SourcesOf(articles) == [i \in 1..Len(articles) |-> Pick(articles[i], SourceKeys)]

Response(status, body) == [status |-> status, body |-> body]

\* the texts the model may give as a summary
SummaryTexts == {<<"s", "u", "m">>}

\* the texts the model may give as an answer: one that cites nothing and
\* one that cites the article of UrlA
AnswerTexts ==
    {<<"n", "o">>, <<"s", "e", "e", " ">> \o Cite(<<"A">>, UrlA)}

\* a faulty variant: the catch block of agentHandler rethrows
HandlerCatchRethrows(error) == Then(Log(error), LAMBDA logged : Throw(error))

\* catch (error) { console.error; return res.status(500).json({error, details}) }
HandlerCatch(error) ==
    Then(Log(error), LAMBDA logged :
      Resolve(Response(500, [error |-> "Processing failed",
                             details |-> IF error.isError THEN error.message
                                                          ELSE "Unknown error"])))

\* a faulty variant: the emptiness of the query is not checked
ValidQueryTypeOnly(query) == query.type = "string"

\* !(!query || typeof query !== 'string')
ValidQuery(query) == Truthy(query) /\ query.type = "string"

\* agentHandler(req, res, next): a run resolves with the response it sent
agentHandler(query, idx) ==
    Catch(
      IF ~ValidQuery(query)
      THEN Resolve(Response(400, [error |-> "Query is required and must be a string"]))
      ELSE LET url == extractUrlFromQuery(query.s)
           IN  IF url # << >>
               THEN Then(ServerProcessArticle(url), LAMBDA article :
                      Then(GenerateContent("summarize", SummaryTexts), LAMBDA answer :
                        Resolve(Response(200, [answer |-> answer,
                                               sources |-> SourcesOf(<<article>>)]))))
               ELSE Then(searchArticles(query.s, idx), LAMBDA relevantArticles :
                      Then(BuildContext(relevantArticles), LAMBDA context :
                        Then(GenerateContent("answer", AnswerTexts), LAMBDA answer :
                          Resolve(Response(200, [answer |-> answer,
                                                 sources |-> SourcesOf(relevantArticles)]))))),
      LAMBDA error : HandlerCatch(error))

\* app.post('/agent', ...): agentHandler(req, res, next).catch(next).  An
\* exchange lists the responses sent and tells whether an error went to next
Exchange(query, run) ==
    [op |-> "POST /agent", query |-> query, calls |-> run.calls,
     responses |-> IF run.ok THEN <<run.v>> ELSE << >>,
     next |-> ~run.ok]

----------------------------------------------------------------------------
(* src/kafka/consumer.ts and its query variant                             *)

HttpPrefix == <<"h", "t", "t", "p">>

\* `${article.title}\n${article.content.substring(0, 1000)}`
EmbedText(article) ==
    IF ~HasProp(article, "content") THEN Throw(TypeError)
    ELSE Resolve(Substring(article.content, 0, EmbedContentLimit))

\* a faulty variant: the catch block of eachMessage rethrows after logging
IngestCatchRethrows(url, error) == Then(Log(error), LAMBDA logged : Throw(error))

\* catch (error) { console.error(`Failed to process article ${url}:`, ...) }
IngestCatch(url, error) == Then(Log(error), LAMBDA logged : Resolve("returned"))

\* eachMessage of the ingestion consumer, for a message value (null is Missing)
eachMessage(value) ==
    IF ~Truthy(value) \/ ~StartsWith(value.s, HttpPrefix)
    THEN Then(Log([message |-> "Invalid URL in message"]), LAMBDA logged : Resolve("returned"))
    ELSE LET url == value.s
         IN  Catch(Then(Fetch(url), LAMBDA html :
                    IF html = << >> THEN Throw(NoHtml)
                    ELSE Then(GenerateContent("transform", IngestReplies), LAMBDA text :
                          Then(JSONParse(JsonSpan(text)), LAMBDA article :
                           Then(EmbedText(article), LAMBDA embedText :
                            Then(EmbedContent, LAMBDA embedding :
                             Then(Upsert(ArticleId(url), article), LAMBDA done :
                              Resolve("returned"))))))),
                   LAMBDA error : IngestCatch(url, error))

\* eachMessage of the query consumer
eachMessageQuery(value, idx) ==
    IF ~Truthy(value)
    THEN Then(Log([message |-> "Message without a valid query"]), LAMBDA logged :
           Resolve("returned"))
    ELSE LET query == value.s
         IN  Catch(Then(searchArticles(query, idx), LAMBDA relevantArticles :
                    Then(BuildContext(relevantArticles), LAMBDA context :
                     Then(GenerateContent("answer", AnswerTexts), LAMBDA answer :
                      Resolve("returned")))),
                   LAMBDA error : Then(Log(error), LAMBDA logged : Resolve("returned")))

----------------------------------------------------------------------------
(* The article services (src/unnamed/part_000).                            *)

GenerationReplaced == Err("Failed to process article content.")
ParseReplaced == Err("Invalid response format from Gemini.")
EmbeddingReplaced == Err("Failed to generate embeddings.")

\* article.date || new Date().toISOString().split('T')[0]
DateOrToday(article) == IF HasProp(article, "date") THEN article.date ELSE Today

\* the metadata of storeArticle: reading substring of an undefined title
\* throws (the content was read before, for the embedding)
StoreMetadata(article) ==
    IF ~HasProp(article, "title") THEN Throw(TypeError)
    ELSE Resolve([title |-> Substring(article.title, 0, TitleLimit),
                  url |-> article.url,
                  date |-> DateOrToday(article),
                  content |-> Substring(article.content, 0, ContentLimit)])

\* Buffer.from(article.url)...: Buffer.from(undefined) throws
StoreId(article) ==
    IF ~HasProp(article, "url") THEN Throw(TypeError)
    ELSE Resolve(ArticleId(article.url))

\* a faulty variant of storeArticle: the record is upserted before the
\* embedding is asked for
storeArticleUpsertFirst(article) ==
    Catch(Then(StoreId(article), LAMBDA articleId :
            Then(StoreMetadata(article), LAMBDA metadata :
              Then(Upsert(articleId, metadata), LAMBDA done :
                Then(EmbedText(article), LAMBDA embedText : EmbedContent)))),
          LAMBDA error : Then(Log(error), LAMBDA logged : Throw(error)))

\* storeArticle(article) of the first service file
storeArticle(article) ==
    Catch(Then(Catch(Then(EmbedText(article), LAMBDA embedText : EmbedContent),
                     LAMBDA error : Then(Log(error), LAMBDA logged : Throw(EmbeddingReplaced))),
               LAMBDA embedding :
                 Then(StoreId(article), LAMBDA articleId :
                   Then(StoreMetadata(article), LAMBDA metadata :
                     Upsert(articleId, metadata)))),
          LAMBDA error : Then(Log(error), LAMBDA logged : Throw(error)))

\* processArticle(url) of the first service file: fetch, prompt, parse the
\* whole reply, store
processArticle(url) ==
    Catch(Then(Fetch(url), LAMBDA html :
            IF html = << >> THEN Throw(InvalidHtml)
            ELSE Then(Catch(GenerateContent("clean", IngestReplies),
                            LAMBDA error : Then(Log(error), LAMBDA logged :
                                             Throw(GenerationReplaced))),
                      LAMBDA text :
                        Then(Catch(JSONParse(text),
                                   LAMBDA error : Then(Log(error), LAMBDA logged :
                                                    Throw(ParseReplaced))),
                             LAMBDA article : storeArticle(article)))),
          LAMBDA error : Then(Log(error), LAMBDA logged : Throw(error)))

\* processArticle(url) of the second service file: fetch, prompt, parse the
\* JSON span, return the article
processArticleParse(url) ==
    Catch(Then(Fetch(url), LAMBDA html :
            IF html = << >> THEN Throw(InvalidHtml)
            ELSE Then(GenerateContent("clean", NormalizerReplies), LAMBDA text :
                    JSONParse(JsonSpan(text)))),
          LAMBDA error : Then(Log(error), LAMBDA logged : Throw(error)))

\* the fragments an answer is assembled from: citations of three urls,
\* prose, and the pieces of a citation
Fragments ==
    {Cite(<<"A">>, UrlA), Cite(<<"b">>, UrlB), Cite(<<"c">>, FtpUrl),
     <<"x">>, <<"[", "t", "]">>, <<"(", ")">>}

RECURSIVE Assembled(_)
Assembled(n) ==
    IF n = 0 THEN {<< >>}
    ELSE LET shorter == Assembled(n - 1)
         IN  shorter \cup {t \o f : t \in shorter, f \in Fragments}

ComposedAnswers == Assembled(MaxFragments)

\* a second article under the url of ArticleA
ArticleA2 == [title |-> <<"A", "2">>, content |-> <<"z">>, url |-> UrlA, date |-> Date1]

\* the candidate lists: at most MaxCandidates articles, with repetitions
RECURSIVE ListsUpTo(_, _)
ListsUpTo(S, n) ==
    IF n = 0 THEN {<< >>}
    ELSE LET shorter == ListsUpTo(S, n - 1)
         IN  shorter \cup {l \o <<a>> : l \in shorter, a \in S}

CandidateLists == ListsUpTo({ArticleA, ArticleB, ArticleA2}, MaxCandidates)

\* generateResponse(query, articles)
generateResponse(articles, texts) ==
    Catch(Then(BuildContext(articles), LAMBDA context :
            Then(GenerateContent("answer", texts), LAMBDA answer :
              Resolve([answer |-> answer, sources |-> CitedSources(answer, articles)]))),
          LAMBDA error : Then(Log(error), LAMBDA logged : Throw(error)))

----------------------------------------------------------------------------
(* The state machine.                                                      *)

Consumers == {"ingest", "query"}

NoMessage == [pending |-> FALSE]
Pending(value) == [pending |-> TRUE, value |-> value]

\* a record another writer left in the index, with no metadata
ForeignId == <<"f">>
EmptyIndex == [i \in {} |-> EmptyObject]
ForeignIndex == [i \in {ForeignId} |-> EmptyObject]

\* the request bodies of the model: no query, a number, an empty text, a
\* text with no URL (a bare scheme is none), texts with a URL
Word == <<"n", "e", "w", "s">>
BodyQueries ==
    {Missing, Num(42), Num(0), Str(<< >>),
     Str(HttpScheme \o <<" ">> \o Word),
     Str(Word \o <<" ">> \o UrlA \o <<" ">> \o Word),
     Str(UrlB)}

\* the values of the messages on the topic
IngestValues == {Missing, Str(FtpUrl), Str(UrlA), Str(UrlL1)}
QueryValues == {Missing, Str(<< >>), Str(Word)}

\* the URLs the callers of the services pass
ServiceUrls == {UrlA}

Init ==
    /\ index \in {EmptyIndex, ForeignIndex}
    /\ ingested = {}
    /\ offset = [c \in Consumers |-> 0]
    /\ delivered = [c \in Consumers |-> 0]
    /\ redeliver = [c \in Consumers |-> NoMessage]
    /\ last = [op |-> "start"]

\* does the run hold an upsert that resolved
Upserted(calls) ==
    \E i \in 1..Len(calls) : "upsert" \in DOMAIN calls[i] /\ "metadata" \in DOMAIN calls[i]

\* POST /agent with some body, served to completion
PostAgent ==
    \E query \in BodyQueries : \E run \in agentHandler(query, index) :
        /\ last' = Exchange(query, run)
        /\ index' = IndexAfter(index, run.calls)
        /\ UNCHANGED <<ingested, offset, delivered, redeliver>>

\* the consumer runtime hands consumer c the next message (the one it holds
\* for redelivery, if any) and awaits the handler: a handler that resolves
\* moves the offset on, one that rejects leaves the message to be redelivered
Settle(c, value, run) ==
    /\ delivered' = [delivered EXCEPT ![c] = @ + 1]
    /\ offset' = [offset EXCEPT ![c] = IF run.ok THEN @ + 1 ELSE @]
    /\ redeliver' = [redeliver EXCEPT ![c] = IF run.ok THEN NoMessage ELSE Pending(value)]
    /\ last' = [op |-> "eachMessage", consumer |-> c, value |-> value,
                calls |-> run.calls, resolved |-> run.ok]
    /\ index' = IndexAfter(index, run.calls)

NextValues(c, values) == IF redeliver[c].pending THEN {redeliver[c].value} ELSE values

EachMessageIngest ==
    /\ delivered["ingest"] < MaxMessages
    /\ \E value \in NextValues("ingest", IngestValues) : \E run \in eachMessage(value) :
        /\ Settle("ingest", value, run)
        /\ ingested' = IF Upserted(run.calls) THEN ingested \cup {value.s} ELSE ingested

EachMessageQuery ==
    /\ delivered["query"] < MaxMessages
    /\ \E value \in NextValues("query", QueryValues) : \E run \in eachMessageQuery(value, index) :
        /\ Settle("query", value, run)
        /\ UNCHANGED ingested

\* a caller of the services processes a URL, which stores the article
CallProcessArticle ==
    \E url \in ServiceUrls : \E run \in processArticle(url) :
        /\ last' = [op |-> "processArticle", url |-> url, calls |-> run.calls,
                    resolved |-> run.ok, error |-> IF run.ok THEN Err("") ELSE run.e]
        /\ index' = IndexAfter(index, run.calls)
        /\ ingested' = IF Upserted(run.calls) THEN ingested \cup {url} ELSE ingested
        /\ UNCHANGED <<offset, delivered, redeliver>>

\* a caller of the services normalizes a URL without storing it
CallProcessArticleParse ==
    \E url \in ServiceUrls : \E run \in processArticleParse(url) :
        /\ last' = [op |-> "processArticleParse", url |-> url, calls |-> run.calls,
                    resolved |-> run.ok, error |-> IF run.ok THEN Err("") ELSE run.e,
                    article |-> IF run.ok THEN run.v ELSE EmptyObject]
        /\ index' = IndexAfter(index, run.calls)
        /\ UNCHANGED <<ingested, offset, delivered, redeliver>>

\* the server, the ingestion consumer and a caller that normalizes articles
Next ==
    \/ PostAgent
    \/ EachMessageIngest
    \/ CallProcessArticleParse

\* the callers of the article services
NextServices == CallProcessArticle \/ CallProcessArticleParse

SpecServices == Init /\ [][NextServices]_vars

Spec == Init /\ [][Next]_vars

\* the two consumers
NextConsumers == EachMessageIngest \/ EachMessageQuery

SpecConsumers == Init /\ [][NextConsumers]_vars

\* the two ingestion paths: the queue listener and processArticle
NextIngestion == EachMessageIngest \/ CallProcessArticle

SpecIngestion == Init /\ [][NextIngestion]_vars

\* generateResponse on every candidate list and every assembled answer
CallGenerateResponse ==
    /\ last.op = "start"
    /\ \E articles \in CandidateLists : \E run \in generateResponse(articles, ComposedAnswers) :
        /\ last' = [op |-> "generateResponse", articles |-> articles, calls |-> run.calls,
                    resolved |-> run.ok,
                    answer |-> IF run.ok THEN run.v.answer ELSE << >>,
                    sources |-> IF run.ok THEN run.v.sources ELSE << >>]
    /\ UNCHANGED <<index, ingested, offset, delivered, redeliver>>

SpecCompose == Init /\ [][CallGenerateResponse]_vars

\* the URLs the id is computed for: a short and a long stem, with every tail
IdUrls == {stem \o tail : stem \in {HttpScheme, LongStem},
                          tail \in TextsUpTo({"0", "1"}, MaxTail)}

\* the id of two URLs, as the ingestion computes it
ComputeIds ==
    /\ last.op = "start"
    /\ \E url1 \in IdUrls, url2 \in IdUrls :
        last' = [op |-> "articleId", url1 |-> url1, url2 |-> url2,
                 id1 |-> ArticleId(url1), id2 |-> ArticleId(url2)]
    /\ UNCHANGED <<index, ingested, offset, delivered, redeliver>>

SpecIds == Init /\ [][ComputeIds]_vars

----------------------------------------------------------------------------
(* What the claims speak of.                                               *)

IsAgent == last.op = "POST /agent"
IsMessage(c) == last.op = "eachMessage" /\ last.consumer = c

\* the positions of the calls of the last operation that hold the field
Calls(field) ==
    IF "calls" \in DOMAIN last
    THEN {i \in 1..Len(last.calls) : field \in DOMAIN last.calls[i]}
    ELSE {}

\* the calls to a service outside the process
ServiceCalls == Calls("fetch") \cup Calls("generate") \cup Calls("embed")
                \cup Calls("query") \cup Calls("upsert")

\* the only response of the exchange
TheResponse == last.responses[1]

\* a body query that is missing, empty or not a string
InvalidBody(query) ==
    \/ query.type = "undefined"
    \/ query.type = "number"
    \/ query.type = "string" /\ Len(query.s) = 0

\* the text holds "http://" or "https://" followed by a non-whitespace character
HoldsUrl(text) ==
    \E i \in 1..Len(text) : \E scheme \in {HttpScheme, HttpsScheme} :
        /\ OccursAt(text, scheme, i)
        /\ i + Len(scheme) <= Len(text)
        /\ text[i + Len(scheme)] \notin {" ", "\t", "\n"}

\* the articles the vector query of the exchange retrieved
Retrieved ==
    LET m == last.calls[CHOOSE i \in Calls("matches") : TRUE].matches
    IN  [i \in 1..Len(m) |-> index[m[i]]]

\* the text holds no "{" with a "}" after it
NoSpan(text) == ~\E i \in 1..Len(text) : \E j \in (i + 1)..Len(text) :
                    text[i] = "{" /\ text[j] = "}"

\* the replies of the model to the normalization prompt of the operation
NormalizerCalls ==
    {i \in Calls("text") : last.calls[i].generate \in {"extract", "transform", "clean"}}

\* the operation logged the message
Logged(message) == \E i \in Calls("console") : last.calls[i].console = message

\* C1: a 200 answer to a query with no URL lists as sources exactly the
\* retrieved articles that the answer text cites as [label](url)
C1_SourcesAreTheCitations ==
    (IsAgent /\ ~InvalidBody(last.query) /\ ~HoldsUrl(last.query.s)
        /\ Len(last.responses) = 1 /\ TheResponse.status = 200)
    => TheResponse.body.sources
         = SourcesOf(CitedSources(TheResponse.body.answer, Retrieved))

\* C2: a 200 answer to a query with a URL lists exactly one source, whose
\* url is the URL of the query
C2_SourceIsTheQueryUrl ==
    (IsAgent /\ ~InvalidBody(last.query) /\ HoldsUrl(last.query.s)
        /\ Len(last.responses) = 1 /\ TheResponse.status = 200)
    => /\ Len(TheResponse.body.sources) = 1
       /\ HasProp(TheResponse.body.sources[1], "url")
       /\ TheResponse.body.sources[1].url = extractUrlFromQuery(last.query.s)

\* C3: a body whose query is missing, empty or not a string gets one
\* response, a 400 with an error, and no call to a service is made
C3_InvalidQueryIs400 ==
    (IsAgent /\ InvalidBody(last.query))
    => /\ Len(last.responses) = 1
       /\ TheResponse.status = 400
       /\ DOMAIN TheResponse.body = {"error"}
       /\ ServiceCalls = {}
       /\ ~last.next

C3_Witness ==
    /\ IsAgent /\ last.query = Num(42)
    /\ last.responses = <<Response(400, [error |-> "Query is required and must be a string"])>>

\* a step after the validation failed: a service call rejected, the page was
\* empty, the reply held no JSON object text, or a retrieved record has no
\* content
EmptyPage == \E i \in Calls("html") : last.calls[i].html = << >>
\* a reply holds an object text: its first "{" and its last "}" enclose
\* nothing or one member list
ObjectInProse(t) ==
    \E i \in 1..Len(t) : \E j \in {i + 1, i + 2} :
        /\ j <= Len(t) /\ t[i] = "{" /\ t[j] = "}"
        /\ j = i + 2 => t[i + 1] \in MemberTokens
        /\ \A k \in 1..(i - 1) : t[k] # "{"
        /\ \A k \in (j + 1)..Len(t) : t[k] # "}"
UnparsableReply == \E i \in NormalizerCalls : ~ObjectInProse(last.calls[i].text)
NoContentRetrieved ==
    Calls("matches") # {} /\ \E i \in 1..Len(Retrieved) : ~HasProp(Retrieved[i], "content")
DownstreamFailure ==
    Calls("error") # {} \/ EmptyPage \/ UnparsableReply \/ NoContentRetrieved

\* C4: when a step of a valid request fails, exactly one response is sent,
\* it is a 500 with error and details, and no error leaves the handler
C4_FailureIs500 ==
    (IsAgent /\ ~InvalidBody(last.query) /\ DownstreamFailure)
    => /\ Len(last.responses) = 1
       /\ TheResponse.status = 500
       /\ DOMAIN TheResponse.body = {"error", "details"}
       /\ ~last.next

C4_Witness ==
    /\ IsAgent /\ ~InvalidBody(last.query) /\ NoContentRetrieved
    /\ Len(last.responses) = 1 /\ TheResponse.status = 500
    /\ TheResponse.body.details = TypeError.message

\* C5: a POST /agent makes no upsert and leaves the vector index as it was
C5_EndpointNeverWrites ==
    /\ [](IsAgent => Calls("upsert") = {})
    /\ [][last'.op = "POST /agent" => index' = index]_vars

C5_Witness ==
    /\ IsAgent /\ ~InvalidBody(last.query) /\ HoldsUrl(last.query.s)
    /\ Len(last.responses) = 1 /\ TheResponse.status = 200
    /\ ArticleId(last.calls[1].fetch) \notin DOMAIN index

\* C6: the index holds at most one record for each URL ingested
C6_OneRecordPerUrl ==
    Cardinality(DOMAIN index \ {ForeignId}) <= Cardinality(ingested)

\* C7: no handler invocation rejects, no message is held for redelivery,
\* and every invocation moved the offset on, whatever failed in it
C7_FailuresAreSwallowed ==
    /\ \A c \in Consumers : ~redeliver[c].pending /\ offset[c] = delivered[c]
    /\ last.op = "eachMessage" => last.resolved

C7_Witness ==
    /\ IsMessage("ingest") /\ Calls("error") # {} /\ last.resolved
    /\ offset["ingest"] = 2 /\ offset["query"] = 1

\* C8: the sources of generateResponse are candidates, hold no url twice,
\* and a second extraction (over the candidates, or over the sources
\* themselves) yields them again
C8_SourcesOfTheCandidates ==
    (last.op = "generateResponse" /\ last.resolved)
    => /\ \A i \in 1..Len(last.sources) :
            \E j \in 1..Len(last.articles) : last.sources[i] = last.articles[j]
       /\ \A i, j \in 1..Len(last.sources) :
            i # j => last.sources[i].url # last.sources[j].url
       /\ CitedSources(last.answer, last.articles) = last.sources
       /\ CitedSources(last.answer, last.sources) = last.sources

C8_Witness ==
    /\ last.op = "generateResponse" /\ last.resolved
    /\ last.articles = <<ArticleA2, ArticleA>>
    /\ last.answer = Cite(<<"A">>, UrlA) \o Cite(<<"c">>, FtpUrl) \o Cite(<<"A">>, UrlA)
    /\ last.sources = <<ArticleA2>>

\* C9: a reply with no {...} span makes the normalization fail with the
\* parse error: the endpoint answers 500, the listener logs it, stores
\* nothing and resolves, a caller of processArticle gets the error
C9_NoSpanIsAnError ==
    (\E i \in NormalizerCalls : NoSpan(last.calls[i].text))
    => /\ IsAgent =>
            /\ last.responses = <<Response(500, [error |-> "Processing failed",
                                                 details |-> SyntaxError.message])>>
            /\ ~last.next
       /\ last.op = "eachMessage" =>
            last.resolved /\ Calls("upsert") = {} /\ Logged(SyntaxError.message)
       /\ last.op = "processArticleParse" =>
            ~last.resolved /\ last.error = SyntaxError

C9_Witness ==
    /\ IsAgent
    /\ \E i \in NormalizerCalls : last.calls[i].text = <<"}", "{">>
    /\ Len(last.responses) = 1 /\ TheResponse.status = 500

\* the bytes of a URL its id keeps: 3 for every 4 characters of the id
IdBytes == (IdLen \div 4) * 3

IsService == last.op \in {"processArticle", "processArticleParse"}

\* the services outside the process
ServiceNames == {"fetch", "generate", "embed", "upsert", "query"}

\* the text is an object text and nothing else
WholeObject(t) ==
    \/ t = <<"{", "}">>
    \/ Len(t) = 3 /\ t[1] = "{" /\ t[3] = "}" /\ t[2] \in MemberTokens

\* the reply the service had to parse was not one it can parse: the whole
\* reply for processArticle, its {...} span for the second processArticle
ServiceParseFailed ==
    \/ last.op = "processArticle"
        /\ \E i \in NormalizerCalls : ~WholeObject(last.calls[i].text)
    \/ last.op = "processArticleParse" /\ UnparsableReply

\* C11: the caller of a service receives the very error the failing step
\* raised (the rejection of the external call, the parse error), and the
\* service that failed is called once only
C11_ErrorsAreRethrownUnchanged ==
    IsService
    => /\ \A i \in Calls("error") :
            /\ ~last.resolved
            /\ last.error = last.calls[i].error
            /\ \A f \in ServiceNames : f \in DOMAIN last.calls[i] => Calls(f) = {i}
       /\ ServiceParseFailed => ~last.resolved /\ last.error = SyntaxError

\* the operation is an ingestion: the queue listener or processArticle
IsIngestion == IsMessage("ingest") \/ last.op = "processArticle"

\* the reply at position i of the calls is one the ingestion can parse: its
\* {...} span for the listener, the whole reply for processArticle
Parsable(i) ==
    IF last.op = "processArticle" THEN WholeObject(last.calls[i].text)
    ELSE ObjectInProse(last.calls[i].text)

\* the messages of the failures of the steps before the upsert: a call
\* other than the upsert rejected, the page was empty, the reply did not parse
EarlierFailures ==
    {last.calls[i].error.message : i \in Calls("error") \ Calls("upsert")}
    \cup (IF EmptyPage THEN {NoHtml.message, InvalidHtml.message} ELSE {})
    \cup (IF \E i \in NormalizerCalls : ~Parsable(i) THEN {SyntaxError.message} ELSE {})

\* the failure reached the caller, or the log at the queue boundary
Reported ==
    IF last.op = "processArticle" THEN ~last.resolved
    ELSE last.resolved /\ \E m \in EarlierFailures : Logged(m)

\* the upsert at position u comes after a fetch that returned a page, a
\* reply that parsed and an embedding that resolved, in that order
AfterItsSteps(u) ==
    \E f, g, e \in 1..Len(last.calls) :
        /\ f < g /\ g < e /\ e < u
        /\ f \in Calls("html") /\ last.calls[f].html # << >>
        /\ g \in NormalizerCalls /\ Parsable(g)
        /\ e \in Calls("embed") \ Calls("error")

\* C12: an ingestion issues at most one upsert, after the fetch, the
\* normalization and the embedding succeeded in that order; when one of
\* them fails no upsert is issued, the index is left as it was, and the
\* failure is reported
C12_UpsertOnceAfterItsSteps ==
    /\ [](IsIngestion =>
            /\ Cardinality(Calls("upsert")) <= 1
            /\ \A u \in Calls("upsert") : AfterItsSteps(u)
            /\ EarlierFailures # {} => Calls("upsert") = {} /\ Reported)
    /\ [][(IsIngestion /\ EarlierFailures # {})' => index' = index]_vars

C12_Witness ==
    /\ last.op = "processArticle" /\ ~last.resolved
    /\ Calls("html") # {} /\ ~EmptyPage
    /\ \E g \in NormalizerCalls : Parsable(g)
    /\ \E e \in Calls("embed") : e \in Calls("error")
    /\ Calls("upsert") = {}
    /\ ingested # {} /\ DOMAIN index \ {ForeignId} # {}

\* C13: every record an ingestion wrote holds a title of at most 1000
\* characters and a content of at most 5000
C13_MetadataIsTruncated ==
    \A id \in DOMAIN index \ {ForeignId} :
        /\ HasProp(index[id], "title") => Len(index[id].title) <= TitleLimit
        /\ HasProp(index[id], "content") => Len(index[id].content) <= ContentLimit

====
